---- MODULE Spec2Model ----
(***************************************************************************)
(* Model of oneless: src/lines.rs (Line, Lines, prune, write) and          *)
(* src/prioritizer.rs (the scoring strategies and auto_prioritize).        *)
(*                                                                         *)
(* A text is a sequence of characters; a character is a one-token string.  *)
(* Two specifications share the variables and the prune actions:           *)
(*   Spec       the pipeline of main(): from_reader, auto_prioritize,      *)
(*              prune, write;                                              *)
(*   SpecPrune  the harness of the unit tests of lines.rs: from_reader,    *)
(*              priorities pushed by hand, target_lines assigned and       *)
(*              prune called, possibly several times, then write;          *)
(*   SpecRoundTrip  tests::lines_read_write: a character stream is read    *)
(*              and written back at once;                                  *)
(*   SpecPlain  the pipeline of main() on plain text (no separator, no     *)
(*              tree glyph), up to more lines than Spec.                   *)
(***************************************************************************)
EXTENDS Integers, Sequences, FiniteSets, TLC

VARIABLES
    raw,              \* the characters of the stream behind the reader
    input,            \* the rows handed to from_reader
    columns,          \* the column width handed to from_reader
    lines,            \* Lines.lines: sequence of [prio, status, text]
    target_lines,     \* Lines.target_lines
    overflow_checks,  \* build profile: TRUE = arithmetic overflow panics (dev), FALSE = it wraps (release)
    pc,               \* position of the program
    conf,             \* confidences computed by PathDepth::new and FirstAlnum::new
    selected,         \* the prioritizer auto_prioritize picked, "none" before
    at_call,          \* the statuses at the most recent call of prune
    out               \* the rows written by write

vars == <<raw, input, columns, lines, target_lines, overflow_checks, pc, conf, selected, at_call, out>>

----------------------------------------------------------------------------
\* Bounds of the model.

MaxLines == 4
MaxColumns == 3
MaxTarget == 4
MaxPrio == 2
MaxRaw == 5
MaxPlainLines == 6

\* usize arithmetic wraps modulo 2^w when overflow checks are off. w is 64 on
\* the usual targets; 16 (the smallest usize Rust has) keeps the values in
\* TLC's integers and decides every comparison of the model the same way.
UsizeModulus == 2 ^ 16

----------------------------------------------------------------------------
\* Characters and texts.

SEPARATOR == "/"
BOX_VERTICAL_RIGHT == "|-"
BOX_UP_RIGHT == "L-"
DOTDOTDOT == <<".", ".", ".">>

AsciiAlphanumeric == {"x", "y", "z"}

TextPool ==
    { <<"x">>,
      <<"x", "/", "x">>,
      <<" ", "|-", "x">>,
      <<"/", "L-", "/">> }

LF == "\n"
CR == "\r"

RawChars == {"x", LF, CR}

Min(a, b) == IF a < b THEN a ELSE b

Contains(text, ch) == \E k \in 1..Len(text) : text[k] = ch

----------------------------------------------------------------------------
\* Line and Lines.

LineStatus == {"Kept", "Discardable", "Discarded", "DotDotDot"}

\* Variant: one character fewer than the width is taken.
LineNewShort(s, len) ==
    [prio |-> <<>>, status |-> "Kept", text |-> SubSeq(s, 1, Min(len - 1, Len(s)))]

LineNew(s, len) ==
    [prio |-> <<>>, status |-> "Kept", text |-> SubSeq(s, 1, Min(len, Len(s)))]

\* Vec<u32>::cmp: lexicographic, a proper prefix is Less.
VecCmp(a, b) ==
    LET m == Min(Len(a), Len(b))
        diff == {k \in 1..m : a[k] # b[k]}
    IN  IF diff # {}
        THEN LET k == CHOOSE d \in diff : \A e \in diff : d <= e
             IN  IF a[k] < b[k] THEN "Less" ELSE "Greater"
        ELSE IF Len(a) < Len(b) THEN "Less"
        ELSE IF Len(a) > Len(b) THEN "Greater"
        ELSE "Equal"

\* Variant: the comparison is taken the wrong way round.
LineCmpReversed(l1, l2) == VecCmp(l2.prio, l1.prio)

LineCmp(l1, l2) == VecCmp(l1.prio, l2.prio)

\* BufRead::lines: a row ends at LF, which is dropped together with a CR just
\* before it; characters after the last LF form a last row; nothing after the
\* last LF forms no row.
StripCR(row) ==
    IF Len(row) > 0 /\ row[Len(row)] = CR THEN SubSeq(row, 1, Len(row) - 1) ELSE row

RECURSIVE ReadLinesFrom(_, _, _)
ReadLinesFrom(bytes, i, row) ==
    IF i > Len(bytes) THEN (IF row = <<>> THEN <<>> ELSE <<row>>)
    ELSE IF bytes[i] = LF THEN <<StripCR(row)>> \o ReadLinesFrom(bytes, i + 1, <<>>)
    ELSE ReadLinesFrom(bytes, i + 1, Append(row, bytes[i]))

ReadLines(bytes) == ReadLinesFrom(bytes, 1, <<>>)

\* writeln!: every row is followed by LF.
RECURSIVE WritelnFrom(_, _)
WritelnFrom(rows, i) ==
    IF i > Len(rows) THEN <<>> ELSE rows[i] \o <<LF>> \o WritelnFrom(rows, i + 1)

Writeln(rows) == WritelnFrom(rows, 1)

from_reader(rows, cols) == [i \in 1..Len(rows) |-> LineNew(rows[i], cols)]

RECURSIVE WriteFrom(_, _)
WriteFrom(ls, i) ==
    IF i > Len(ls) THEN <<>>
    ELSE IF ls[i].status \in {"Kept", "Discardable"} THEN <<ls[i].text>> \o WriteFrom(ls, i + 1)
    ELSE IF ls[i].status = "DotDotDot" THEN <<DOTDOTDOT>> \o WriteFrom(ls, i + 1)
    ELSE WriteFrom(ls, i + 1)

\* Variant: a DotDotDot line is written with its own text.
WriteRowsMarkerText(ls) == WriteFrom([i \in 1..Len(ls) |->
    IF ls[i].status = "DotDotDot" THEN [ls[i] EXCEPT !.status = "Kept"] ELSE ls[i]], 1)

WriteRows(ls) == WriteFrom(ls, 1)

kept_lines(ls) ==
    Cardinality({i \in 1..Len(ls) : ls[i].status = "DotDotDot"
                                    \/ ls[i].status = "Kept"
                                    \/ ls[i].status = "Discardable"})

Statuses(ls) == [i \in 1..Len(ls) |-> ls[i].status]

----------------------------------------------------------------------------
\* prune: the loop condition and the three passes of one iteration.

\* Variants of the loop condition: one line too few pruned, one too many.
LoopCondOffByOne(ls, target) == kept_lines(ls) > target + 1
LoopCondInclusive(ls, target) == kept_lines(ls) >= target

LoopCond(ls, target) == kept_lines(ls) > target

\* filter(status == Kept).max(): Iterator::max keeps the later of two equal
\* elements. 0 stands for None.
RECURSIVE MaxKeptFrom(_, _, _)
MaxKeptFrom(ls, i, best) ==
    IF i > Len(ls) THEN best
    ELSE IF ls[i].status = "Kept" /\ (best = 0 \/ LineCmp(ls[best], ls[i]) # "Greater")
         THEN MaxKeptFrom(ls, i + 1, i)
         ELSE MaxKeptFrom(ls, i + 1, best)

\* Variant: min() in place of max() (Iterator::min keeps the earlier of two
\* equal elements).
RECURSIVE MinKeptFrom(_, _, _)
MinKeptFrom(ls, i, best) ==
    IF i > Len(ls) THEN best
    ELSE IF ls[i].status = "Kept" /\ (best = 0 \/ LineCmp(ls[best], ls[i]) = "Greater")
         THEN MinKeptFrom(ls, i + 1, i)
         ELSE MinKeptFrom(ls, i + 1, best)

MaxKeptMin(ls) == MinKeptFrom(ls, 1, 0)

\* Variant: the earlier of two equal maxima is kept.
RECURSIVE FirstMaxKeptFrom(_, _, _)
FirstMaxKeptFrom(ls, i, best) ==
    IF i > Len(ls) THEN best
    ELSE IF ls[i].status = "Kept" /\ (best = 0 \/ LineCmp(ls[best], ls[i]) = "Less")
         THEN FirstMaxKeptFrom(ls, i + 1, i)
         ELSE FirstMaxKeptFrom(ls, i + 1, best)

MaxKeptFirst(ls) == FirstMaxKeptFrom(ls, 1, 0)

MaxKept(ls) == MaxKeptFrom(ls, 1, 0)

\* Variant: the demoted line is taken out of the vector.
DemoteLineRemoving(ls, k) == SubSeq(ls, 1, k - 1) \o SubSeq(ls, k + 1, Len(ls))

\* Variant: the status is set on a copy, the line stays Kept.
DemoteLineNoop(ls, k) == ls

DemoteLine(ls, k) == [ls EXCEPT ![k].status = "Discardable"]

\* Variant: only a Discardable line is collapsed, a DotDotDot inside a run stays.
RECURSIVE ForwardScanOnlyDiscardable(_, _, _)
ForwardScanOnlyDiscardable(ls, i, status_last_line) ==
    IF i > Len(ls) THEN ls
    ELSE LET st == IF ls[i].status = "Discardable" /\ status_last_line # "Kept"
                   THEN "Discarded" ELSE ls[i].status
         IN  ForwardScanOnlyDiscardable([ls EXCEPT ![i].status = st], i + 1, st)

RECURSIVE ForwardScan(_, _, _)
ForwardScan(ls, i, status_last_line) ==
    IF i > Len(ls) THEN ls
    ELSE LET st == IF ls[i].status # "Kept" /\ status_last_line # "Kept"
                   THEN "Discarded" ELSE ls[i].status
         IN  ForwardScan([ls EXCEPT ![i].status = st], i + 1, st)

\* Variant: any line that is not Kept and precedes a Discarded one is marked.
RECURSIVE BackwardScanAnyNonKept(_, _, _)
BackwardScanAnyNonKept(ls, i, status_last_line) ==
    IF i < 1 THEN ls
    ELSE LET st == IF ls[i].status # "Kept" /\ status_last_line = "Discarded"
                   THEN "DotDotDot" ELSE ls[i].status
         IN  BackwardScanAnyNonKept([ls EXCEPT ![i].status = st], i - 1, st)

RECURSIVE BackwardScan(_, _, _)
BackwardScan(ls, i, status_last_line) ==
    IF i < 1 THEN ls
    ELSE LET st == IF ls[i].status = "Discardable" /\ status_last_line = "Discarded"
                   THEN "DotDotDot" ELSE ls[i].status
         IN  BackwardScan([ls EXCEPT ![i].status = st], i - 1, st)

\* One iteration of the loop of prune on lines that hold a Kept line.
PruneIteration(ls) ==
    BackwardScan(ForwardScan(DemoteLine(ls, MaxKept(ls)), 1, "Kept"), Len(ls), "Kept")

\* prune as a whole: the lines when the loop is left, by return or by panic.
RECURSIVE PruneLoop(_, _)
PruneLoop(ls, target) ==
    IF ~LoopCond(ls, target) THEN ls
    ELSE IF MaxKept(ls) = 0 THEN ls
    ELSE PruneLoop(PruneIteration(ls), target)

----------------------------------------------------------------------------
\* The prioritizers.

ConfidenceRank(c) ==
    CASE c = "Low" -> 10
      [] c = "Medium" -> 20
      [] c = "High" -> 30
      [] c = "Certain" -> 100

WrappingSub(a, b) == (a - b) % UsizeModulus

SubOverflows(a, b) == a < b

CountWith(sample, chars) ==
    Cardinality({i \in 1..Len(sample) : \E c \in chars : Contains(sample[i].text, c)})

PatternConfidence(sample, chars) ==
    LET n_lines == Len(sample)
        n_lines_with_separator == CountWith(sample, chars)
    IN  IF n_lines_with_separator >= WrappingSub(n_lines, 2) /\ n_lines > 2
        THEN "Certain" ELSE "Low"

HeadNew == "Low"
HeadAndTailNew(sample) == "Medium"
PathDepthNew(sample) == PatternConfidence(sample, {SEPARATOR})
FirstAlnumNew(sample) == PatternConfidence(sample, {BOX_VERTICAL_RIGHT, BOX_UP_RIGHT})

\* The subtraction n_lines - 2 of PathDepth::new, the first constructor run.
NewOverflows(sample) == SubOverflows(Len(sample), 2)

HeadScore(ls, i) == i - 1
\* len - line_number - 1 on usize, evaluated left to right.
HeadAndTailOverflows(ls, i) ==
    SubOverflows(Len(ls), i - 1) \/ SubOverflows(Len(ls) - (i - 1), 1)

\* Variant: the distance to the end is taken one too large.
HeadAndTailScoreOffByOne(ls, i) == Min(i - 1, Len(ls) - (i - 1))

HeadAndTailScore(ls, i) == Min(i - 1, Len(ls) - (i - 1) - 1)
\* Variant: the separators are counted, not the segments.
PathDepthScoreSeparators(ls, i) == Cardinality({k \in 1..Len(ls[i].text) : ls[i].text[k] = SEPARATOR})

PathDepthScore(ls, i) == Cardinality({k \in 1..Len(ls[i].text) : ls[i].text[k] = SEPARATOR}) + 1
FirstAlnumScore(ls, i) ==
    LET t == ls[i].text
        hits == {k \in 1..Len(t) : t[k] \in AsciiAlphanumeric}
    IN  IF hits = {} THEN 0 ELSE (CHOOSE k \in hits : \A h \in hits : k <= h) - 1

Score(p, ls, i) ==
    CASE p = "Head" -> HeadScore(ls, i)
      [] p = "HeadAndTail" -> HeadAndTailScore(ls, i)
      [] p = "PathDepth" -> PathDepthScore(ls, i)
      [] p = "FirstAlnum" -> FirstAlnumScore(ls, i)

Prioritize(p, ls) == [i \in 1..Len(ls) |-> [ls[i] EXCEPT !.prio = Append(@, Score(p, ls, i))]]

Confidence(p, sample) ==
    CASE p = "Head" -> HeadNew
      [] p = "HeadAndTail" -> HeadAndTailNew(sample)
      [] p = "PathDepth" -> PathDepthNew(sample)
      [] p = "FirstAlnum" -> FirstAlnumNew(sample)

Prioritizers == <<"PathDepth", "FirstAlnum", "HeadAndTail">>

\* Iterator::max_by: the later of two equally ranked elements wins.
RECURSIVE MaxByFrom(_, _, _, _)
MaxByFrom(ps, sample, i, best) ==
    IF i > Len(ps) THEN best
    ELSE IF ConfidenceRank(Confidence(best, sample)) > ConfidenceRank(Confidence(ps[i], sample))
         THEN MaxByFrom(ps, sample, i + 1, best)
         ELSE MaxByFrom(ps, sample, i + 1, ps[i])

\* Variant: the first prioritizer of the list is taken, whatever its confidence.
SelectFirstPrioritizer(sample) == Prioritizers[1]

SelectPrioritizer(sample) == MaxByFrom(Prioritizers, sample, 2, Prioritizers[1])

----------------------------------------------------------------------------
\* Initial states.

SeqsUpTo(S, n) == UNION {[1..k -> S] : k \in 0..n}

InitCommon ==
    /\ lines = from_reader(input, columns)
    /\ overflow_checks \in BOOLEAN
    /\ pc = "new"
    /\ conf = [PathDepth |-> "none", FirstAlnum |-> "none"]
    /\ selected = "none"
    /\ at_call = <<>>
    /\ out = <<>>

\* main(): any rows, any terminal geometry.
Init ==
    /\ input \in SeqsUpTo(TextPool, MaxLines)
    /\ raw = Writeln(input)
    /\ columns \in 1..MaxColumns
    /\ target_lines \in 0..MaxTarget
    /\ InitCommon

\* The unit tests of lines.rs: a fixture of rows of distinct texts, read with
\* columns and target_lines larger than any of them, built under the dev profile.
FixtureRow(i) == [k \in 1..i |-> "x"]

InitPrune ==
    /\ \E n \in 0..MaxLines : input = [i \in 1..n |-> FixtureRow(i)]
    /\ raw = Writeln(input)
    /\ columns = MaxLines + 1
    /\ target_lines = MaxTarget
    /\ InitCommon
    /\ overflow_checks = TRUE

\* tests::lines_read_write and tests::lines_trim_columns: any character
\* stream, any width.
InitRoundTrip ==
    /\ raw \in SeqsUpTo(RawChars, MaxRaw)
    /\ input = ReadLines(raw)
    /\ columns \in 1..MaxColumns
    /\ target_lines = MaxTarget
    /\ InitCommon
    /\ overflow_checks = TRUE

\* main() on plain text: rows of "x" only, any target.
InitPlain ==
    /\ \E n \in 0..MaxPlainLines : input = [i \in 1..n |-> FixtureRow(i)]
    /\ raw = Writeln(input)
    /\ columns = MaxPlainLines + 1
    /\ target_lines \in 0..MaxPlainLines
    /\ InitCommon

----------------------------------------------------------------------------
\* auto_prioritize.

AutoPrioritize ==
    /\ pc = "new"
    /\ ~(overflow_checks /\ NewOverflows(lines))
    /\ conf' = [PathDepth |-> PathDepthNew(lines), FirstAlnum |-> FirstAlnumNew(lines)]
    /\ selected' = SelectPrioritizer(lines)
    /\ lines' = Prioritize(SelectPrioritizer(lines), lines)
    /\ pc' = "ready"
    /\ UNCHANGED <<raw, input, columns, target_lines, overflow_checks, at_call, out>>

\* n_lines - 2 with fewer than two lines, overflow checks on: the process panics.
AutoPrioritizeOverflow ==
    /\ pc = "new"
    /\ overflow_checks /\ NewOverflows(lines)
    /\ pc' = "panic_overflow"
    /\ UNCHANGED <<raw, input, columns, lines, target_lines, overflow_checks, conf, selected, at_call, out>>

----------------------------------------------------------------------------
\* prune, one action per position of its loop.

PruneCall ==
    /\ pc = "ready"
    /\ at_call' = Statuses(lines)
    /\ pc' = "loop"
    /\ UNCHANGED <<raw, input, columns, lines, target_lines, overflow_checks, conf, selected, out>>

Demote ==
    /\ pc = "loop"
    /\ LoopCond(lines, target_lines)
    /\ MaxKept(lines) # 0
    /\ lines' = DemoteLine(lines, MaxKept(lines))
    /\ pc' = "collapse"
    /\ UNCHANGED <<raw, input, columns, target_lines, overflow_checks, conf, selected, at_call, out>>

PrunePanic ==
    /\ pc = "loop"
    /\ LoopCond(lines, target_lines)
    /\ MaxKept(lines) = 0
    /\ pc' = "panic_prune"
    /\ UNCHANGED <<raw, input, columns, lines, target_lines, overflow_checks, conf, selected, at_call, out>>

Collapse ==
    /\ pc = "collapse"
    /\ lines' = ForwardScan(lines, 1, "Kept")
    /\ pc' = "mark"
    /\ UNCHANGED <<raw, input, columns, target_lines, overflow_checks, conf, selected, at_call, out>>

MarkBoundary ==
    /\ pc = "mark"
    /\ lines' = BackwardScan(lines, Len(lines), "Kept")
    /\ pc' = "loop"
    /\ UNCHANGED <<raw, input, columns, target_lines, overflow_checks, conf, selected, at_call, out>>

PruneReturn ==
    /\ pc = "loop"
    /\ ~LoopCond(lines, target_lines)
    /\ pc' = "returned"
    /\ UNCHANGED <<raw, input, columns, lines, target_lines, overflow_checks, conf, selected, at_call, out>>

Write ==
    /\ pc = "returned"
    /\ out' = WriteRows(lines)
    /\ pc' = "written"
    /\ UNCHANGED <<raw, input, columns, lines, target_lines, overflow_checks, conf, selected, at_call>>

----------------------------------------------------------------------------
\* The steps of the unit tests: priorities pushed by hand, target_lines
\* assigned before each call of prune, write at any point.

PrioPool == {<<p>> : p \in 0..MaxPrio} \cup {<<MaxPrio, 0>>}

PushPrio ==
    /\ pc = "new"
    /\ \E ps \in [1..Len(lines) -> PrioPool] :
          lines' = [i \in 1..Len(lines) |-> [lines[i] EXCEPT !.prio = @ \o ps[i]]]
    /\ pc' = "ready"
    /\ UNCHANGED <<raw, input, columns, target_lines, overflow_checks, conf, selected, at_call, out>>

\* tests::head_prioritizer, tests::head_and_tail_prioritizer: a prioritizer
\* whose constructor computes nothing is built and applied directly.
PrioritizeDirect ==
    /\ pc = "new"
    /\ \E p \in {"Head", "HeadAndTail"} :
          /\ selected' = p
          /\ lines' = Prioritize(p, lines)
    /\ pc' = "ready"
    /\ UNCHANGED <<raw, input, columns, target_lines, overflow_checks, conf, at_call, out>>

SetTargetAndPrune ==
    /\ pc \in {"new", "ready", "returned"}
    /\ \E t \in 0..MaxTarget : target_lines' = t
    /\ at_call' = Statuses(lines)
    /\ pc' = "loop"
    /\ UNCHANGED <<raw, input, columns, lines, overflow_checks, conf, selected, out>>

WriteFixture ==
    /\ pc \in {"new", "ready", "returned"}
    /\ out' = WriteRows(lines)
    /\ pc' = "written"
    /\ UNCHANGED <<raw, input, columns, lines, target_lines, overflow_checks, conf, selected, at_call>>

----------------------------------------------------------------------------
\* Specifications.

Next ==
    \/ AutoPrioritize
    \/ AutoPrioritizeOverflow
    \/ PruneCall
    \/ Demote
    \/ PrunePanic
    \/ Collapse
    \/ MarkBoundary
    \/ PruneReturn
    \/ Write

Spec == Init /\ [][Next]_vars

NextPrune ==
    \/ PushPrio
    \/ PrioritizeDirect
    \/ SetTargetAndPrune
    \/ Demote
    \/ PrunePanic
    \/ Collapse
    \/ MarkBoundary
    \/ PruneReturn
    \/ WriteFixture

SpecPrune == InitPrune /\ [][NextPrune]_vars

NextRoundTrip ==
    \/ WriteFixture

SpecRoundTrip == InitRoundTrip /\ [][NextRoundTrip]_vars

SpecPlain == InitPlain /\ [][Next]_vars

----------------------------------------------------------------------------
\* Properties.

Strategies == {"Head", "HeadAndTail", "PathDepth", "FirstAlnum"}

PrunePositions == {"loop", "collapse", "mark"}

Discarded(ls) == {i \in 1..Len(ls) : ls[i].status = "Discarded"}

VisibleCount(ls) == Len(ls) - Cardinality(Discarded(ls))

VisibleAtCall == Cardinality({i \in 1..Len(at_call) : at_call[i] # "Discarded"})

\* C1: when prune returns normally, the visible count (Kept + Discardable +
\* Marker) is at most target_lines; the only other way out is the abort.
C1_PruneMeetsTarget ==
    pc = "returned" => VisibleCount(lines) <= target_lines

\* A call that started above the target has returned after pruning.
C1_Witness ==
    /\ pc = "returned"
    /\ VisibleAtCall > target_lines
    /\ \E i \in 1..Len(lines) : lines[i].status = "DotDotDot"

\* C2: a call of prune made when the visible count is already at or below
\* target_lines changes the status of no line.
C2_PruneIdempotent ==
    (pc \in PrunePositions \cup {"returned", "panic_prune"} /\ VisibleAtCall <= target_lines)
        => Statuses(lines) = at_call

\* A second call, on an already pruned collection, has returned.
C2_Witness ==
    /\ pc = "returned"
    /\ VisibleAtCall <= target_lines
    /\ \E i \in 1..Len(at_call) : at_call[i] = "DotDotDot"
    /\ Statuses(lines) = at_call

ForwardStep(a, b) ==
    \/ a = b
    \/ a = "Kept" /\ b = "Discardable"
    \/ a = "Discardable" /\ b \in {"Discarded", "DotDotDot"}

ForwardOnlyStep ==
    \A i \in 1..Len(lines) :
        i <= Len(lines') => ForwardStep(lines[i].status, lines'[i].status)

ForwardOrAbsorbedStep ==
    \A i \in 1..Len(lines) :
        i <= Len(lines') =>
            \/ ForwardStep(lines[i].status, lines'[i].status)
            \/ lines[i].status = "DotDotDot" /\ lines'[i].status = "Discarded"

PruneFrameStep ==
    pc \in PrunePositions =>
        /\ target_lines' = target_lines
        /\ Len(lines') = Len(lines)
        /\ \A i \in 1..Len(lines) :
              /\ lines'[i].text = lines[i].text
              /\ lines'[i].prio = lines[i].prio

AutoPrioritizeStep ==
    (pc = "new" /\ pc' = "ready") =>
        /\ selected' \in Strategies
        /\ \A s \in Strategies :
              ConfidenceRank(Confidence(selected', lines)) >= ConfidenceRank(Confidence(s, lines))
        /\ Len(lines') = Len(lines)
        /\ \A i \in 1..Len(lines) :
              /\ Len(lines'[i].prio) = Len(lines[i].prio) + 1
              /\ lines'[i].prio = Append(lines[i].prio, Score(selected', lines, i))
              /\ lines'[i].text = lines[i].text
              /\ lines'[i].status = lines[i].status

\* C3, as stated: every step moves each status along
\* Kept -> Discardable -> {Discarded | DotDotDot} and makes no other transition.
C3_ForwardOnly ==
    [][ForwardOnlyStep]_vars

\* C3, amended: every step moves each status along
\* Kept -> Discardable -> {Discarded | DotDotDot} or from DotDotDot to
\* Discarded (a marker absorbed by the run of a line demoted before it); no
\* line returns to Kept and no line leaves Discarded.
C3_ForwardOrAbsorbed ==
    [][ForwardOrAbsorbedStep]_vars

\* A marker that stood at the call has been absorbed by a longer run.
C3_Witness ==
    /\ pc = "returned"
    /\ \E i \in 1..Len(lines) : at_call[i] = "DotDotDot" /\ lines[i].status = "Discarded"

MaximalRun(ls, a, b) ==
    /\ a <= b
    /\ \A j \in a..b : ls[j].status # "Kept"
    /\ a = 1 \/ ls[a - 1].status = "Kept"
    /\ b = Len(ls) \/ ls[b + 1].status = "Kept"

\* C4: between outer iterations of prune, every maximal run of lines that are
\* not Kept and that holds a Discarded line has a DotDotDot as its first
\* line and only Discarded lines after it.
C4_OneMarkerPerRun ==
    pc \notin {"collapse", "mark"} =>
        \A a, b \in 1..Len(lines) :
            (MaximalRun(lines, a, b) /\ \E j \in a..b : lines[j].status = "Discarded")
                => /\ lines[a].status = "DotDotDot"
                   /\ \A j \in (a + 1)..b : lines[j].status = "Discarded"

\* A run of three or more lines whose head was demoted after its tail had
\* already been collapsed under a marker.
C4_Witness ==
    /\ pc = "loop"
    /\ \E a, b \in 1..Len(lines) :
          /\ MaximalRun(lines, a, b)
          /\ b >= a + 2
          /\ at_call[a] = "Kept"
          /\ at_call[a + 1] = "DotDotDot"

\* C5: no step of prune changes the number of lines, their order, any text,
\* any priority vector or target_lines.
C5_PruneFrame ==
    [][PruneFrameStep]_vars

\* prune has returned after changing statuses of lines with distinct texts
\* and priorities.
C5_Witness ==
    /\ pc = "returned"
    /\ Len(lines) >= 3
    /\ \A i \in 1..Len(lines) : lines[i].prio # <<>>
    /\ \E i, j \in 1..Len(lines) : lines[i].prio # lines[j].prio
    /\ \E i \in 1..Len(lines) : lines[i].status = "Discarded"

\* C6: an unreachable target (no Kept line left, visible count above
\* target_lines) is reported to the caller and never ends the process.
C6_UnreachableTargetRecoverable ==
    pc # "panic_prune"

\* C7: with no input rows, auto_prioritize and prune raise no error or abort
\* and the collection stays empty.
C7_EmptyInputNoAbort ==
    Len(input) = 0 => (pc \notin {"panic_overflow", "panic_prune"} /\ lines = <<>>)

\* C8: the step of auto_prioritize that returns applies one strategy whose
\* confidence rank is at least the rank of each of the four strategies on the
\* same input, and appends exactly one component, the score of that strategy,
\* to every priority vector, leaving text and status alone.
C8_AutoPrioritize ==
    [][AutoPrioritizeStep]_vars

\* auto_prioritize returned on an input where PathDepth is Low and another
\* strategy outranks it.
C8_Witness ==
    /\ pc = "ready"
    /\ Len(lines) >= 3
    /\ conf.PathDepth = "Low"
    /\ selected # "PathDepth"
    /\ \A i \in 1..Len(lines) : Len(lines[i].prio) = 1

ExpectedConfidence(ls, chars) ==
    IF Len(ls) > 2 /\ CountWith(ls, chars) >= Len(ls) - 2 THEN "Certain" ELSE "Low"

\* C9: once the strategies are constructed, PathDepth and FirstAlnum report
\* Certain exactly when n > 2 and at least n - 2 lines hold the pattern, and
\* Low otherwise, also for 0, 1 and 2 lines.
C9_ConfidenceRule ==
    pc # "new" =>
        /\ conf.PathDepth = ExpectedConfidence(lines, {SEPARATOR})
        /\ conf.FirstAlnum = ExpectedConfidence(lines, {BOX_VERTICAL_RIGHT, BOX_UP_RIGHT})

Visible(ls) == {i \in 1..Len(ls) : ls[i].status # "Discarded"}

RowOf(l) == IF l.status = "DotDotDot" THEN <<".", ".", ".">> ELSE l.text

\* C10: write emits one row per visible line in the original order, the text
\* for Kept and Discardable and "..." for DotDotDot, nothing for Discarded;
\* the number of rows equals kept_lines and, after prune returned, is at most
\* target_lines.
C10_WriteRows ==
    pc = "written" =>
        /\ Len(out) = Cardinality(Visible(lines))
        /\ \A i \in Visible(lines) :
              out[Cardinality({j \in Visible(lines) : j <= i})] = RowOf(lines[i])
        /\ Len(out) = kept_lines(lines)
        /\ Len(out) <= target_lines

\* A pruned collection with a kept line, a marker and a discarded line has
\* been written.
C10_Witness ==
    /\ pc = "written"
    /\ \E i, j, k \in 1..Len(lines) :
          /\ lines[i].status = "Kept"
          /\ lines[j].status = "DotDotDot"
          /\ lines[k].status = "Discarded"

NoneOmitted == \A i \in 1..Len(lines) : lines[i].status \notin {"Discarded", "DotDotDot"}

\* Every row of the stream ends with LF, has no CR just before that LF and
\* holds at most `columns` characters.
RowsFitAndEndWithLF ==
    /\ Len(raw) = 0 \/ raw[Len(raw)] = LF
    /\ \A i \in 2..Len(raw) : raw[i] = LF => raw[i - 1] # CR
    /\ \A i \in 1..Len(raw) :
          i + columns <= Len(raw) => \E k \in i..(i + columns) : raw[k] = LF

\* C11, as stated: for every input text and every column width, what write
\* emits while no line is Discarded or DotDotDot is the input text, character
\* for character.
C11_RoundTrip ==
    (pc = "written" /\ NoneOmitted) => Writeln(out) = raw

\* C11, amended: the same, for an input text in which every row ends with a
\* line feed, has no carriage return before it and holds at most `columns`
\* characters.
C11_RoundTripWhenRowsFit ==
    (pc = "written" /\ NoneOmitted /\ RowsFitAndEndWithLF) => Writeln(out) = raw

\* Two rows or more, one of them exactly as wide as the column width, have
\* been read and written back.
C11_Witness ==
    /\ pc = "written"
    /\ NoneOmitted
    /\ RowsFitAndEndWithLF
    /\ Len(lines) >= 2
    /\ \E i \in 1..Len(lines) : Len(lines[i].text) = columns

\* Lexicographic order of priority vectors, a proper prefix first.
RECURSIVE LexLess(_, _)
LexLess(a, b) ==
    IF b = <<>> THEN FALSE
    ELSE IF a = <<>> THEN TRUE
    ELSE IF Head(a) # Head(b) THEN Head(a) < Head(b)
    ELSE LexLess(Tail(a), Tail(b))

AllKeptAtCall ==
    /\ Len(at_call) = Len(lines)
    /\ \A i \in 1..Len(at_call) : at_call[i] = "Kept"

PrioIncreasing == \A i \in 1..(Len(lines) - 1) : LexLess(lines[i].prio, lines[i + 1].prio)

PrioDecreasing == \A i \in 1..(Len(lines) - 1) : LexLess(lines[i + 1].prio, lines[i].prio)

TargetBelowLength == 1 <= target_lines /\ target_lines < Len(lines)

\* C12: head pruning. n lines, all Kept, priorities strictly increasing with
\* position, target t with 1 <= t < n: prune ends with the first t-1 lines
\* Kept, the t-th a DotDotDot and all later lines Discarded.
C12_HeadPruning ==
    (pc = "returned" /\ AllKeptAtCall /\ PrioIncreasing /\ TargetBelowLength) =>
        \A i \in 1..Len(lines) :
            lines[i].status = IF i < target_lines THEN "Kept"
                              ELSE IF i = target_lines THEN "DotDotDot"
                              ELSE "Discarded"

\* Four lines or more of increasing priority have been pruned to two rows.
C12_Witness ==
    /\ pc = "returned"
    /\ AllKeptAtCall
    /\ PrioIncreasing
    /\ Len(lines) >= 4
    /\ target_lines = 2

\* C13: tail pruning. n lines, all Kept, priorities strictly decreasing with
\* position, target t with 1 <= t < n: prune ends with the first line a
\* DotDotDot, the next n-t lines Discarded and the last t-1 lines Kept or
\* Discardable.
C13_TailPruning ==
    (pc = "returned" /\ AllKeptAtCall /\ PrioDecreasing /\ TargetBelowLength) =>
        /\ lines[1].status = "DotDotDot"
        /\ \A i \in 2..(Len(lines) - target_lines + 1) : lines[i].status = "Discarded"
        /\ \A i \in (Len(lines) - target_lines + 2)..Len(lines) :
              lines[i].status \in {"Kept", "Discardable"}

\* Four lines or more of decreasing priority have been pruned to two rows.
C13_Witness ==
    /\ pc = "returned"
    /\ AllKeptAtCall
    /\ PrioDecreasing
    /\ Len(lines) >= 4
    /\ target_lines = 2

\* C14: bounded undershoot. A collection that is all Kept, has more lines
\* than target_lines and target_lines >= 1: prune does not abort and returns
\* with target_lines - 1 <= kept_lines() <= target_lines, whatever the
\* priorities.
C14_BoundedUndershoot ==
    (AllKeptAtCall /\ TargetBelowLength) =>
        /\ pc # "panic_prune"
        /\ pc = "returned" =>
              /\ target_lines - 1 <= VisibleCount(lines)
              /\ VisibleCount(lines) <= target_lines

\* A call on priorities that go up and down has returned one row below the
\* target.
C14_Witness ==
    /\ pc = "returned"
    /\ AllKeptAtCall
    /\ TargetBelowLength
    /\ VisibleCount(lines) = target_lines - 1
    /\ \E i \in 2..(Len(lines) - 1) :
          /\ LexLess(lines[i - 1].prio, lines[i].prio)
          /\ LexLess(lines[i + 1].prio, lines[i].prio)

\* C15: HeadAndTail appends to the line at 0-based position i the component
\* min(i, n-1-i): 0 for the first and the last line, the same for two lines
\* at equal distance from the two ends; no subtraction underflows.
C15_HeadAndTailScore ==
    selected = "HeadAndTail" =>
        \A i \in 1..Len(lines) :
            /\ ~HeadAndTailOverflows(lines, i)
            /\ Len(lines[i].prio) = 1
            /\ lines[i].prio[1] = (IF 2 * (i - 1) <= Len(lines) - 1 THEN i - 1 ELSE Len(lines) - i)
            /\ lines[i].prio[1] = lines[Len(lines) + 1 - i].prio[1]
            /\ (i = 1 \/ i = Len(lines)) => lines[i].prio[1] = 0

\* HeadAndTail has scored four lines or more.
C15_Witness ==
    /\ selected = "HeadAndTail"
    /\ pc = "ready"
    /\ Len(lines) >= 4
    /\ lines[2].prio = <<1>>

RECURSIVE SeparatorCount(_)
SeparatorCount(text) ==
    IF text = <<>> THEN 0
    ELSE (IF Head(text) = "/" THEN 1 ELSE 0) + SeparatorCount(Tail(text))

\* C16: PathDepth appends to every line exactly one component, the number of
\* "/" characters of its text plus one; a text without separator scores 1.
C16_PathDepthScore ==
    selected = "PathDepth" =>
        \A i \in 1..Len(lines) : lines[i].prio = <<SeparatorCount(lines[i].text) + 1>>

\* PathDepth has scored a text without separator, and texts with one and two.
C16_Witness ==
    /\ selected = "PathDepth"
    /\ \E i, j, k \in 1..Len(lines) :
          /\ lines[i].prio = <<1>> /\ ~Contains(lines[i].text, "/")
          /\ lines[j].prio = <<2>>
          /\ lines[k].prio = <<3>>

KeptCount(ls) == Cardinality({i \in 1..Len(ls) : ls[i].status = "Kept"})

DemoteStep == pc = "loop" /\ pc' = "collapse"

\* The one line whose status the step changes, from Kept to Discardable, and
\* which no Kept line exceeds in priority.
DemotedGreatest(k) ==
    /\ {i \in 1..Len(lines) : lines'[i].status # lines[i].status} = {k}
    /\ lines[k].status = "Kept"
    /\ lines'[k].status = "Discardable"
    /\ \A j \in 1..Len(lines) :
          lines[j].status = "Kept" => ~LexLess(lines[k].prio, lines[j].prio)

DemoteFirstOfGreatestStep ==
    DemoteStep =>
        \E k \in 1..Len(lines) :
            /\ DemotedGreatest(k)
            /\ \A j \in 1..(k - 1) :
                  lines[j].status = "Kept" => lines[j].prio # lines[k].prio

DemoteLastOfGreatestStep ==
    DemoteStep =>
        \E k \in 1..Len(lines) :
            /\ DemotedGreatest(k)
            /\ \A j \in (k + 1)..Len(lines) :
                  lines[j].status = "Kept" => lines[j].prio # lines[k].prio

\* C17, as stated: each outer iteration changes exactly one line from Kept to
\* Discardable, the Kept line of lexicographically greatest priority, and
\* among several such lines the first in original order.
C17_DemoteFirstOfGreatest ==
    [][DemoteFirstOfGreatestStep]_vars

\* C17, amended: each outer iteration changes exactly one line from Kept to
\* Discardable, the Kept line of lexicographically greatest priority, and
\* among several such lines the last in original order.
C17_DemoteLastOfGreatest ==
    [][DemoteLastOfGreatestStep]_vars

\* The first demotion of a call has taken the later of two lines of equal,
\* greatest priority.
C17_Witness ==
    /\ pc = "collapse"
    /\ AllKeptAtCall
    /\ \E k \in 2..Len(lines) :
          /\ \A i \in 1..Len(lines) : lines[i].status # "Kept" <=> i = k
          /\ \E j \in 1..(k - 1) : lines[j].prio = lines[k].prio

\* Decreases with every step inside prune.
PruneMeasure ==
    3 * KeptCount(lines) + (CASE pc = "collapse" -> 2 [] pc = "mark" -> 1 [] OTHER -> 0)

PruneTerminatesStep ==
    pc \in PrunePositions =>
        /\ pc' \in PrunePositions => (PruneMeasure' < PruneMeasure /\ PruneMeasure' >= 0)
        /\ DemoteStep => KeptCount(lines') = KeptCount(lines) - 1
        /\ (pc = "loop" /\ KeptCount(lines) = 0) => pc' \in {"returned", "panic_prune"}
        /\ KeptCount(lines') <= KeptCount(lines)

\* C18: prune terminates. Every iteration lowers the number of Kept lines by
\* exactly one, no step raises it, and an iteration that finds no Kept line
\* leaves the loop; so a call on n lines makes at most n demotions.
C18_PruneTerminates ==
    [][PruneTerminatesStep]_vars

\* A call on three lines or more has demoted every line and returned.
C18_Witness ==
    /\ pc = "returned"
    /\ AllKeptAtCall
    /\ Len(lines) >= 3
    /\ KeptCount(lines) = 0

\* C19: prune aborts only with target_lines = 0 on a collection that is not
\* empty, and with such a target it never returns; once no Kept line is left
\* exactly one line is visible.
C19_AbortIffTargetZero ==
    /\ pc = "panic_prune" => (target_lines = 0 /\ Len(lines) > 0)
    /\ pc = "returned" => ~(target_lines = 0 /\ Len(lines) > 0)
    /\ (pc \notin {"collapse", "mark"} /\ Len(lines) > 0 /\ KeptCount(lines) = 0)
          => VisibleCount(lines) = 1

\* prune has aborted on two lines or more, one row left visible.
C19_Witness ==
    /\ pc = "panic_prune"
    /\ Len(lines) >= 2
    /\ VisibleCount(lines) = 1

Fresh(ls) == [i \in 1..Len(ls) |-> [ls[i] EXCEPT !.status = "Kept"]]

\* The call that has just ended started either on the untouched collection or
\* on what a single earlier call with a target t1 >= target_lines returned.
AfterDecreasingTargets(t1) ==
    /\ t1 >= target_lines
    /\ ~LoopCond(PruneLoop(Fresh(lines), t1), t1)
    /\ at_call = Statuses(PruneLoop(Fresh(lines), t1))

PruneComposes ==
    pc \in {"returned", "panic_prune"} =>
        /\ AllKeptAtCall =>
              Statuses(lines) = Statuses(PruneLoop(Fresh(lines), target_lines))
        /\ \A t1 \in 0..MaxTarget :
              AfterDecreasingTargets(t1) =>
                  Statuses(lines) = Statuses(PruneLoop(Fresh(lines), target_lines))

\* None of the three passes of an iteration raises the visible count, so the
\* count after an iteration is never above the count before it.
VisibleNeverGrows ==
    /\ (pc = "loop" /\ KeptCount(lines) > 0) =>
          /\ VisibleCount(DemoteLine(lines, MaxKept(lines))) <= VisibleCount(lines)
          /\ VisibleCount(PruneIteration(lines)) <= VisibleCount(lines)
    /\ pc = "collapse" =>
          VisibleCount(ForwardScan(lines, 1, "Kept")) <= VisibleCount(lines)
    /\ pc = "mark" =>
          VisibleCount(BackwardScan(lines, Len(lines), "Kept")) <= VisibleCount(lines)

\* C20: prune with target t1 followed by prune with target t2 <= t1 leaves
\* every line in the status a single prune with target t2 gives it, and no
\* iteration of prune raises the visible count.
C20_PruneComposes ==
    PruneComposes /\ VisibleNeverGrows

\* A second call with a lower target has changed statuses and returned.
C20_Witness ==
    /\ pc = "returned"
    /\ ~AllKeptAtCall
    /\ Statuses(lines) # at_call
    /\ \E t1 \in 0..MaxTarget : t1 > target_lines /\ AfterDecreasingTargets(t1)

HeadAndTailCase ==
    /\ selected = "HeadAndTail"
    /\ 3 <= target_lines
    /\ target_lines < Len(lines)

\* The lines that are not Kept are exactly those from a to b.
OmittedRun(a, b) == \A i \in 1..Len(lines) : lines[i].status # "Kept" <=> (a <= i /\ i <= b)

\* C21: n lines scored by HeadAndTail and a target t with 3 <= t < n: prune
\* does not abort and returns with exactly t visible lines, exactly one
\* DotDotDot, one contiguous run of omitted lines that touches neither end,
\* and the first and the last line Kept.
C21_HeadAndTailEndToEnd ==
    HeadAndTailCase =>
        /\ pc # "panic_prune"
        /\ pc = "returned" =>
              /\ VisibleCount(lines) = target_lines
              /\ kept_lines(lines) = target_lines
              /\ Cardinality({i \in 1..Len(lines) : lines[i].status = "DotDotDot"}) = 1
              /\ lines[1].status = "Kept"
              /\ lines[Len(lines)].status = "Kept"
              /\ \E a, b \in 2..(Len(lines) - 1) :
                    /\ a < b
                    /\ OmittedRun(a, b)
                    /\ lines[a].status = "DotDotDot"
                    /\ \A i \in (a + 1)..b : lines[i].status = "Discarded"

\* Six lines or more of plain text have been pruned to three rows.
C21_Witness ==
    /\ HeadAndTailCase
    /\ pc = "returned"
    /\ Len(lines) >= 6
    /\ target_lines = 3
    /\ \A i \in 1..Len(lines) : ~Contains(lines[i].text, SEPARATOR)

====
